---- MODULE Spec2Model ----
(***************************************************************************)
(* The generate -> review -> refine pipeline of the educational content    *)
(* generator: ContentPipeline.generate_content (pipeline.py), the reply    *)
(* parsing of GeneratorAgent.generate and ReviewerAgent.review, and the    *)
(* button handler and "Final Output" tab of the Streamlit front end        *)
(* (app.py).                                                               *)
(*                                                                         *)
(* Text is a sequence of one-character strings.  The alphabet of the       *)
(* model is: the JSON punctuation { } [ ] " : , the blank, and letters.    *)
(* It has no backslash, no digit, no sign and no control character, so     *)
(* string escapes and numbers never occur in a modelled reply.             *)
(*                                                                         *)
(* A Python value is a record [t, s, items, pairs]: t is the type tag, s   *)
(* the characters of a str, items the items of a list, pairs the key/value *)
(* pairs of a dict in insertion order; the fields a type does not use are  *)
(* empty.  Python's None and JSON's null are the same value, as in         *)
(* json.loads.                                                             *)
(***************************************************************************)
EXTENDS Integers, Sequences, FiniteSets, TLC

----------------------------------------------------------------------------
(* Python values *)

None == [t |-> "null", s |-> <<>>, items |-> <<>>, pairs |-> <<>>]

PyBool(b) ==
    [t |-> "bool", s |-> IF b THEN <<"T">> ELSE <<>>, items |-> <<>>,
     pairs |-> <<>>]

Str(chars) == [t |-> "str", s |-> chars, items |-> <<>>, pairs |-> <<>>]

List(items) == [t |-> "list", s |-> <<>>, items |-> items, pairs |-> <<>>]

Dict(pairs) == [t |-> "dict", s |-> <<>>, items |-> <<>>, pairs |-> pairs]

RECURSIVE KeyIndex(_, _, _)
(* position of key k among the pairs of a dict, 0 when absent *)
KeyIndex(pairs, k, i) ==
    IF i > Len(pairs) THEN 0
    ELSE IF pairs[i].k = k THEN i
    ELSE KeyIndex(pairs, k, i + 1)

(* `k in d` for a dict d *)
HasKey(d, k) == KeyIndex(d.pairs, k, 1) # 0

(* d[k] for a dict d that has k *)
GetItem(d, k) == d.pairs[KeyIndex(d.pairs, k, 1)].v

(* d[k] = x : a present key keeps its place, a new key goes last *)
SetItem(d, k, x) ==
    LET i == KeyIndex(d.pairs, k, 1) IN
    IF i = 0 THEN Dict(Append(d.pairs, [k |-> k, v |-> x]))
    ELSE Dict([d.pairs EXCEPT ![i] = [k |-> k, v |-> x]])

(* bool(x) *)
Truthy(x) == Len(x.s) + Len(x.items) + Len(x.pairs) > 0

(* a == b where the code compares: a list item or a status with a str *)
PyEq(a, b) == a = b

----------------------------------------------------------------------------
(* str methods *)

RECURSIVE FindFrom(_, _, _)
FindFrom(s, c, i) ==
    IF i > Len(s) THEN -1
    ELSE IF s[i] = c THEN i - 1
    ELSE FindFrom(s, c, i + 1)

(* s.find(c): the 0-based index of the first c, -1 when there is none *)
Find(s, c) == FindFrom(s, c, 1)

RECURSIVE RFindFrom(_, _, _)
RFindFrom(s, c, i) ==
    IF i < 1 THEN -1
    ELSE IF s[i] = c THEN i - 1
    ELSE RFindFrom(s, c, i - 1)

(* s.rfind(c): the 0-based index of the last c, -1 when there is none *)
RFind(s, c) == RFindFrom(s, c, Len(s))

(* s[a:b] for 0 <= a <= b *)
Slice(s, a, b) == SubSeq(s, a + 1, IF b > Len(s) THEN Len(s) ELSE b)

LowerChar(c) ==
    CASE c = "A" -> "a"
      [] c = "B" -> "b"
      [] c = "C" -> "c"
      [] c = "D" -> "d"
      [] c = "E" -> "e"
      [] c = "F" -> "f"
      [] c = "G" -> "g"
      [] c = "H" -> "h"
      [] c = "I" -> "i"
      [] c = "J" -> "j"
      [] c = "K" -> "k"
      [] c = "L" -> "l"
      [] c = "M" -> "m"
      [] c = "N" -> "n"
      [] c = "O" -> "o"
      [] c = "P" -> "p"
      [] c = "Q" -> "q"
      [] c = "R" -> "r"
      [] c = "S" -> "s"
      [] c = "T" -> "t"
      [] c = "U" -> "u"
      [] c = "V" -> "v"
      [] c = "W" -> "w"
      [] c = "X" -> "x"
      [] c = "Y" -> "y"
      [] c = "Z" -> "z"
      [] OTHER -> c

(* s.lower() *)
Lower(s) == [i \in 1..Len(s) |-> LowerChar(s[i])]

----------------------------------------------------------------------------
(* json.loads *)

Whitespace == {" "}

CharAt(s, i) == IF i >= 1 /\ i <= Len(s) THEN s[i] ELSE "<end>"

RECURSIVE SkipWs(_, _)
SkipWs(s, i) ==
    IF i <= Len(s) /\ s[i] \in Whitespace THEN SkipWs(s, i + 1) ELSE i

DecodeError == [ok |-> FALSE, val |-> None, end |-> 0]

Decoded(x, e) == [ok |-> TRUE, val |-> x, end |-> e]

StartsWith(s, i, lit) ==
    /\ i + Len(lit) - 1 <= Len(s)
    /\ SubSeq(s, i, i + Len(lit) - 1) = lit

RECURSIVE ClosingQuote(_, _)
ClosingQuote(s, i) ==
    IF i > Len(s) THEN 0
    ELSE IF s[i] = "\"" THEN i
    ELSE ClosingQuote(s, i + 1)

(* a string literal whose opening quote is at i *)
ScanString(s, i) ==
    LET j == ClosingQuote(s, i + 1) IN
    IF j = 0 THEN DecodeError
    ELSE Decoded(Str(SubSeq(s, i + 1, j - 1)), j + 1)

RECURSIVE ScanOnce(_, _)
RECURSIVE ObjectPairs(_, _, _)
RECURSIVE ArrayItems(_, _, _)

(* the members of an object, i at the opening quote of the next key *)
ObjectPairs(s, i, d) ==
    LET key == ScanString(s, i) IN
    IF ~key.ok THEN DecodeError
    ELSE
    LET colon == SkipWs(s, key.end) IN
    IF CharAt(s, colon) # ":" THEN DecodeError
    ELSE
    LET item == ScanOnce(s, SkipWs(s, colon + 1)) IN
    IF ~item.ok THEN DecodeError
    ELSE
    LET next == SkipWs(s, item.end)
        d2 == SetItem(d, key.val.s, item.val)
    IN
    IF CharAt(s, next) = "}" THEN Decoded(d2, next + 1)
    ELSE IF CharAt(s, next) # "," THEN DecodeError
    ELSE
    LET q == SkipWs(s, next + 1) IN
    IF CharAt(s, q) # "\"" THEN DecodeError
    ELSE ObjectPairs(s, q, d2)

(* an object, i just after its opening brace *)
JSONObject(s, i) ==
    LET j == SkipWs(s, i) IN
    IF CharAt(s, j) = "}" THEN Decoded(Dict(<<>>), j + 1)
    ELSE IF CharAt(s, j) # "\"" THEN DecodeError
    ELSE ObjectPairs(s, j, Dict(<<>>))

(* the items of an array, i at the start of the next item *)
ArrayItems(s, i, items) ==
    LET item == ScanOnce(s, i) IN
    IF ~item.ok THEN DecodeError
    ELSE
    LET next == SkipWs(s, item.end)
        items2 == Append(items, item.val)
    IN
    IF CharAt(s, next) = "]" THEN Decoded(List(items2), next + 1)
    ELSE IF CharAt(s, next) # "," THEN DecodeError
    ELSE ArrayItems(s, SkipWs(s, next + 1), items2)

(* an array, i just after its opening bracket *)
JSONArray(s, i) ==
    LET j == SkipWs(s, i) IN
    IF CharAt(s, j) = "]" THEN Decoded(List(<<>>), j + 1)
    ELSE ArrayItems(s, j, <<>>)

(* one JSON value starting exactly at i *)
ScanOnce(s, i) ==
    LET c == CharAt(s, i) IN
    CASE c = "\"" -> ScanString(s, i)
      [] c = "{" -> JSONObject(s, i + 1)
      [] c = "[" -> JSONArray(s, i + 1)
      [] c = "n" /\ StartsWith(s, i, <<"n", "u", "l", "l">>) ->
            Decoded(None, i + 4)
      [] c = "t" /\ StartsWith(s, i, <<"t", "r", "u", "e">>) ->
            Decoded(PyBool(TRUE), i + 4)
      [] c = "f" /\ StartsWith(s, i, <<"f", "a", "l", "s", "e">>) ->
            Decoded(PyBool(FALSE), i + 5)
      [] OTHER -> DecodeError

(* json.loads(s): ok = FALSE stands for json.JSONDecodeError *)
JsonLoads(s) ==
    LET r == ScanOnce(s, SkipWs(s, 1)) IN
    IF ~r.ok THEN DecodeError
    ELSE IF SkipWs(s, r.end) # Len(s) + 1 THEN DecodeError
    ELSE r

----------------------------------------------------------------------------
(* exceptions: a call either returns a value or raises *)

Returned(x) == [exc |-> "none", val |-> x]

Raised(kind) == [exc |-> kind, val |-> None]

----------------------------------------------------------------------------
(* str(x) and repr(x), as the f-string of _build_prompt renders an item *)

RECURSIVE JoinWith(_, _)
(* sep.join(parts) *)
JoinWith(parts, sep) ==
    IF Len(parts) = 0 THEN <<>>
    ELSE IF Len(parts) = 1 THEN parts[1]
    ELSE parts[1] \o sep \o JoinWith(Tail(parts), sep)

RECURSIVE PyRepr(_)
PyRepr(x) ==
    CASE x.t = "str" -> <<"'">> \o x.s \o <<"'">>
      [] x.t = "null" -> <<"N", "o", "n", "e">>
      [] x.t = "bool" ->
            IF Truthy(x) THEN <<"T", "r", "u", "e">>
            ELSE <<"F", "a", "l", "s", "e">>
      [] x.t = "list" ->
            <<"[">>
            \o JoinWith([i \in 1..Len(x.items) |-> PyRepr(x.items[i])], <<",", " ">>)
            \o <<"]">>
      [] x.t = "dict" ->
            <<"{">>
            \o JoinWith([i \in 1..Len(x.pairs) |->
                            PyRepr(Str(x.pairs[i].k)) \o <<":", " ">>
                            \o PyRepr(x.pairs[i].v)],
                        <<",", " ">>)
            \o <<"}">>

PyStr(x) == IF x.t = "str" THEN x.s ELSE PyRepr(x)

(* whether `for fb in x` can run *)
Iterable(x) == x.t \in {"str", "list", "dict"}

(* the values `for fb in x` yields *)
IterItems(x) ==
    CASE x.t = "list" -> x.items
      [] x.t = "str" -> [i \in 1..Len(x.s) |-> Str(<<x.s[i]>>)]
      [] x.t = "dict" -> [i \in 1..Len(x.pairs) |-> Str(x.pairs[i].k)]

----------------------------------------------------------------------------
(* GeneratorAgent *)

KeyExplanation == <<"e", "x", "p", "l", "a", "n", "a", "t", "i", "o", "n">>

KeyMcqs == <<"m", "c", "q", "s">>

(* faulty variant of BuildPrompt: only the first feedback item reaches the prompt *)
BuildPromptFirstItem(grade, topic, feedback) ==
    IF ~Truthy(feedback)
    THEN Returned([grade |-> grade, topic |-> topic,
                   revise |-> FALSE, feedback_text |-> <<>>])
    ELSE IF ~Iterable(feedback) THEN Raised("TypeError")
    ELSE Returned([grade |-> grade, topic |-> topic, revise |-> TRUE,
                   feedback_text |->
                       <<"-", " ">> \o PyStr(IterItems(feedback)[1])])

(* The prompt of a generation request.  The fixed instruction text is left *)
(* out; what is interpolated into it is kept: the grade, the topic, and    *)
(* the PREVIOUS FEEDBACK section (revise, feedback_text) when there is one. *)
BuildPrompt(grade, topic, feedback) ==
    IF ~Truthy(feedback)
    THEN Returned([grade |-> grade, topic |-> topic,
                   revise |-> FALSE, feedback_text |-> <<>>])
    ELSE IF ~Iterable(feedback) THEN Raised("TypeError")
    ELSE LET items == IterItems(feedback) IN
         Returned([grade |-> grade, topic |-> topic, revise |-> TRUE,
                   feedback_text |->
                       JoinWith([i \in 1..Len(items) |->
                                    <<"-", " ">> \o PyStr(items[i])],
                                <<"\n">>)])

(* faulty variant of GeneratorLoad: the reply is decoded whole, with no extraction *)
GeneratorLoadWholeText(content) == JsonLoads(content)

(* the text handed to json.loads, and its outcome *)
GeneratorLoad(content) ==
    LET start_idx == Find(content, "{")
        end_idx == RFind(content, "}") + 1
    IN  IF start_idx # -1 /\ end_idx > start_idx
        THEN JsonLoads(Slice(content, start_idx, end_idx))
        ELSE JsonLoads(content)

(* faulty variant of GeneratorParse: the fallback keeps the extracted span, not the *)
(* reply                                                                   *)
GeneratorParseKeepsSpan(content) ==
    LET r == GeneratorLoad(content)
        start_idx == Find(content, "{")
        end_idx == RFind(content, "}") + 1
        json_str == IF start_idx # -1 /\ end_idx > start_idx
                    THEN Slice(content, start_idx, end_idx)
                    ELSE content
    IN  IF r.ok THEN r.val
        ELSE Dict(<<[k |-> KeyExplanation, v |-> Str(json_str)],
                    [k |-> KeyMcqs, v |-> List(<<>>)]>>)

(* what generate returns for the reply text `content` *)
GeneratorParse(content) ==
    LET r == GeneratorLoad(content) IN
    IF r.ok THEN r.val
    ELSE Dict(<<[k |-> KeyExplanation, v |-> Str(content)],
                [k |-> KeyMcqs, v |-> List(<<>>)]>>)

----------------------------------------------------------------------------
(* ReviewerAgent *)

KeyStatus == <<"s", "t", "a", "t", "u", "s">>

KeyFeedback == <<"f", "e", "e", "d", "b", "a", "c", "k">>

StatusPass == <<"p", "a", "s", "s">>

StatusFail == <<"f", "a", "i", "l">>

InvalidReviewFormat ==
    <<"I", "n", "v", "a", "l", "i", "d", " ", "r", "e", "v", "i", "e", "w",
      " ", "f", "o", "r", "m", "a", "t">>

CouldNotParse ==
    <<"C", "o", "u", "l", "d", " ", "n", "o", "t", " ", "p", "a", "r", "s",
      "e", " ", "r", "e", "v", "i", "e", "w", " ", "r", "e", "s", "p", "o",
      "n", "s", "e">>

Verdict(status, feedback) ==
    Dict(<<[k |-> KeyStatus, v |-> Str(status)],
           [k |-> KeyFeedback, v |-> feedback]>>)

(* whether `key in x` can be evaluated *)
SupportsIn(x) == x.t \in {"dict", "list", "str"}

(* `key in x` , key a str *)
Contains(x, key) ==
    CASE x.t = "dict" -> HasKey(x, key)
      [] x.t = "list" -> \E i \in 1..Len(x.items) : PyEq(x.items[i], Str(key))
      [] x.t = "str" ->
            \E i \in 1..(Len(x.s) - Len(key) + 1) :
                SubSeq(x.s, i, i + Len(key) - 1) = key

ReviewerLoad(content_text) ==
    LET start_idx == Find(content_text, "{")
        end_idx == RFind(content_text, "}") + 1
    IN  IF start_idx # -1 /\ end_idx > start_idx
        THEN JsonLoads(Slice(content_text, start_idx, end_idx))
        ELSE JsonLoads(content_text)

(* faulty variant of NormalizeStatus: fail-open, whatever is not "fail" passes *)
NormalizeStatusFailOpen(result) ==
    IF result.t # "dict" THEN Raised("TypeError")
    ELSE LET status == GetItem(result, KeyStatus) IN
         IF status.t # "str" THEN Raised("AttributeError")
         ELSE IF Lower(status.s) = StatusFail
              THEN Returned(SetItem(result, KeyStatus, Str(StatusFail)))
              ELSE Returned(SetItem(result, KeyStatus, Str(StatusPass)))

(* faulty variant of NormalizeStatus: a fail verdict with no feedback is given a *)
(* generic issue                                                         *)
NormalizeStatusSynthesizes(result) ==
    IF result.t # "dict" THEN Raised("TypeError")
    ELSE LET status == GetItem(result, KeyStatus)
             filled ==
                 IF Truthy(GetItem(result, KeyFeedback)) THEN result
                 ELSE SetItem(result, KeyFeedback,
                              List(<<Str(<<"i", "s", "s", "u", "e">>)>>))
         IN
         IF status.t # "str" THEN Raised("AttributeError")
         ELSE IF Lower(status.s) = StatusPass
              THEN Returned(SetItem(result, KeyStatus, Str(StatusPass)))
              ELSE Returned(SetItem(filled, KeyStatus, Str(StatusFail)))

(* `if result["status"].lower() not in ["pass", "fail"]: ... else: ...` *)
NormalizeStatus(result) ==
    IF result.t # "dict" THEN Raised("TypeError")
    ELSE LET status == GetItem(result, KeyStatus) IN
         IF status.t # "str" THEN Raised("AttributeError")
         ELSE IF Lower(status.s) \notin {StatusPass, StatusFail}
              THEN Returned(SetItem(result, KeyStatus, Str(StatusFail)))
              ELSE Returned(SetItem(result, KeyStatus, Str(Lower(status.s))))

(* `if "status" not in result or "feedback" not in result: result = ...` *)
RequireFields(result) ==
    IF ~SupportsIn(result) THEN Raised("TypeError")
    ELSE IF ~Contains(result, KeyStatus) \/ ~Contains(result, KeyFeedback)
         THEN Returned(Verdict(StatusFail, List(<<Str(InvalidReviewFormat)>>)))
         ELSE Returned(result)

(* what review returns, or raises, for the reply text `content_text` *)
ReviewerParse(content_text) ==
    LET r == ReviewerLoad(content_text) IN
    IF ~r.ok
    THEN Returned(Verdict(StatusFail, List(<<Str(CouldNotParse)>>)))
    ELSE LET checked == RequireFields(r.val) IN
         IF checked.exc # "none" THEN checked
         ELSE NormalizeStatus(checked.val)

----------------------------------------------------------------------------
(* ContentPipeline.generate_content *)

(* `review_result["status"] == "fail" and review_result["feedback"]` *)
NeedsRefinement(review_result) ==
    /\ PyEq(GetItem(review_result, KeyStatus), Str(StatusFail))
    /\ Truthy(GetItem(review_result, KeyFeedback))

(* the request generate sends: the chat completion with this prompt *)
GenerateRequest(prompt) == [agent |-> "generator", prompt |-> prompt]

(* the request review(content, grade, topic) sends *)
ReviewRequest(content, g, t) ==
    [agent |-> "reviewer", content |-> content, grade |-> g, topic |-> t]

----------------------------------------------------------------------------
(* app.py: the session state and the Final Output tab *)

NoSession ==
    [set |-> FALSE, initial_content |-> None, initial_review |-> None,
     refined_content |-> None, refined_review |-> None,
     grade |-> 0, topic |-> <<>>]

(* the six assignments to st.session_state after a successful call *)
StoreResult(ic, ir, rc, rr, g, t) ==
    [set |-> TRUE, initial_content |-> ic, initial_review |-> ir,
     refined_content |-> rc, refined_review |-> rr, grade |-> g, topic |-> t]

(* faulty variant of OnException: the handler drops the stored result on an error *)
OnExceptionClears(sess) == NoSession

(* `except Exception as e: st.error(...)` leaves the session state alone *)
OnException(sess) == sess

(* `if st.session_state.refined_content:` picks the final content ... *)
FinalContent(sess) ==
    IF Truthy(sess.refined_content) THEN sess.refined_content
    ELSE sess.initial_content

(* ... and the review shown beside it *)
FinalReview(sess) ==
    IF Truthy(sess.refined_content) THEN sess.refined_review
    ELSE sess.initial_review

----------------------------------------------------------------------------
(* inputs: the sidebar's widgets and the replies of the two capabilities *)

Grades == {4, 12}

Topics == {<<>>, <<"a", "n", "g", "l", "e", "s">>}

(* {"explanation":"ab","mcqs":[{"question":"q","options":["a","b","c","d"],"answer":"b"}]} *)
ReplyContent ==
    <<"{", "\"", "e", "x", "p", "l", "a", "n", "a", "t", "i", "o", "n",
      "\"", ":", "\"", "a", "b", "\"", ",", "\"", "m", "c", "q", "s", "\"",
      ":", "[", "{", "\"", "q", "u", "e", "s", "t", "i", "o", "n", "\"",
      ":", "\"", "q", "\"", ",", "\"", "o", "p", "t", "i", "o", "n", "s",
      "\"", ":", "[", "\"", "a", "\"", ",", "\"", "b", "\"", ",", "\"",
      "c", "\"", ",", "\"", "d", "\"", "]", ",", "\"", "a", "n", "s", "w",
      "e", "r", "\"", ":", "\"", "b", "\"", "}", "]", "}">>

(* null *)
ReplyNull ==
    <<"n", "u", "l", "l">>

(* {} *)
ReplyEmptyObject ==
    <<"{", "}">>

(* no json *)
ReplyProse ==
    <<"n", "o", " ", "j", "s", "o", "n">>

(* {"status":"pass","feedback":[]} *)
ReplyPass ==
    <<"{", "\"", "s", "t", "a", "t", "u", "s", "\"", ":", "\"", "p", "a",
      "s", "s", "\"", ",", "\"", "f", "e", "e", "d", "b", "a", "c", "k",
      "\"", ":", "[", "]", "}">>

(* {"status":"fail","feedback":["fix q"]} *)
ReplyFail ==
    <<"{", "\"", "s", "t", "a", "t", "u", "s", "\"", ":", "\"", "f", "a",
      "i", "l", "\"", ",", "\"", "f", "e", "e", "d", "b", "a", "c", "k",
      "\"", ":", "[", "\"", "f", "i", "x", " ", "q", "\"", "]", "}">>

(* {"status":"fail","feedback":[]} *)
ReplyFailNoFeedback ==
    <<"{", "\"", "s", "t", "a", "t", "u", "s", "\"", ":", "\"", "f", "a",
      "i", "l", "\"", ",", "\"", "f", "e", "e", "d", "b", "a", "c", "k",
      "\"", ":", "[", "]", "}">>

(* {"status":null,"feedback":[]} *)
ReplyStatusNull ==
    <<"{", "\"", "s", "t", "a", "t", "u", "s", "\"", ":", "n", "u", "l",
      "l", ",", "\"", "f", "e", "e", "d", "b", "a", "c", "k", "\"", ":",
      "[", "]", "}">>

(* {"status":"maybe","feedback":["a","b"]} *)
ReplyMaybe ==
    <<"{", "\"", "s", "t", "a", "t", "u", "s", "\"", ":", "\"", "m", "a",
      "y", "b", "e", "\"", ",", "\"", "f", "e", "e", "d", "b", "a", "c",
      "k", "\"", ":", "[", "\"", "a", "\"", ",", "\"", "b", "\"", "]", "}">>

(* bad *)
ReplyGarbled ==
    <<"b", "a", "d">>

(* {"status":"PASS","feedback":["a"]} *)
ReplyPassSuggestion ==
    <<"{", "\"", "s", "t", "a", "t", "u", "s", "\"", ":", "\"", "P", "A",
      "S", "S", "\"", ",", "\"", "f", "e", "e", "d", "b", "a", "c", "k",
      "\"", ":", "[", "\"", "a", "\"", "]", "}">>

(* {"feedback":true,"status":"Fail"} *)
ReplyFeedbackTrue ==
    <<"{", "\"", "f", "e", "e", "d", "b", "a", "c", "k", "\"", ":", "t",
      "r", "u", "e", ",", "\"", "s", "t", "a", "t", "u", "s", "\"", ":",
      "\"", "F", "a", "i", "l", "\"", "}">>

GenerationReplies == {ReplyContent, ReplyNull, ReplyEmptyObject, ReplyProse}

EvaluationReplies ==
    {ReplyPass, ReplyFail, ReplyFailNoFeedback, ReplyStatusNull, ReplyMaybe,
     ReplyGarbled, ReplyPassSuggestion, ReplyFeedbackTrue}

----------------------------------------------------------------------------
(* inputs of the parsing specification: a reply is prose, a body, prose *)

MaxProse == 2

ProseChars == {"{", "}", "x"}

RECURSIVE ProseUpTo(_)
(* every text of at most n prose characters *)
ProseUpTo(n) ==
    IF n = 0 THEN {<<>>}
    ELSE ProseUpTo(n - 1)
         \cup {Append(p, c) : p \in ProseUpTo(n - 1), c \in ProseChars}

Prose == ProseUpTo(MaxProse)

(* {"explanation":"{a}","mcqs":[{"question":"q","answer":"b"}]} *)
ProbeBraceInString ==
    <<"{", "\"", "e", "x", "p", "l", "a", "n", "a", "t", "i", "o", "n",
      "\"", ":", "\"", "{", "a", "}", "\"", ",", "\"", "m", "c", "q", "s",
      "\"", ":", "[", "{", "\"", "q", "u", "e", "s", "t", "i", "o", "n",
      "\"", ":", "\"", "q", "\"", ",", "\"", "a", "n", "s", "w", "e", "r",
      "\"", ":", "\"", "b", "\"", "}", "]", "}">>

(* { "mcqs" : [ ] , "explanation" : "" } *)
ProbeSpaced ==
    <<"{", " ", "\"", "m", "c", "q", "s", "\"", " ", ":", " ", "[", " ",
      "]", " ", ",", " ", "\"", "e", "x", "p", "l", "a", "n", "a", "t",
      "i", "o", "n", "\"", " ", ":", " ", "\"", "\"", " ", "}">>

(* the empty reply *)
ProbeEmpty == <<>>

(* {"explanation":"a","mcqs":[} *)
ProbeBrokenArray ==
    <<"{", "\"", "e", "x", "p", "l", "a", "n", "a", "t", "i", "o", "n",
      "\"", ":", "\"", "a", "\"", ",", "\"", "m", "c", "q", "s", "\"", ":",
      "[", "}">>

(* {"explanation":"a" *)
ProbeUnclosed ==
    <<"{", "\"", "e", "x", "p", "l", "a", "n", "a", "t", "i", "o", "n",
      "\"", ":", "\"", "a", "\"">>

(* [] *)
ProbeArray ==
    <<"[", "]">>

(* {"status":"Pass ","feedback":[]} *)
ProbePadded ==
    <<"{", "\"", "s", "t", "a", "t", "u", "s", "\"", ":", "\"", "P", "a",
      "s", "s", " ", "\"", ",", "\"", "f", "e", "e", "d", "b", "a", "c",
      "k", "\"", ":", "[", "]", "}">>

(* {"status":"pass"} *)
ProbeNoFeedback ==
    <<"{", "\"", "s", "t", "a", "t", "u", "s", "\"", ":", "\"", "p", "a",
      "s", "s", "\"", "}">>

(* {"feedback":[]} *)
ProbeNoStatus ==
    <<"{", "\"", "f", "e", "e", "d", "b", "a", "c", "k", "\"", ":", "[",
      "]", "}">>

(* "status feedback" *)
ProbeString ==
    <<"\"", "s", "t", "a", "t", "u", "s", " ", "f", "e", "e", "d", "b",
      "a", "c", "k", "\"">>

(* ["status","feedback"] *)
ProbeKeyList ==
    <<"[", "\"", "s", "t", "a", "t", "u", "s", "\"", ",", "\"", "f", "e",
      "e", "d", "b", "a", "c", "k", "\"", "]">>

(* {"status":"pass","status":"fail","feedback":[]} *)
ProbeLastWins ==
    <<"{", "\"", "s", "t", "a", "t", "u", "s", "\"", ":", "\"", "p", "a",
      "s", "s", "\"", ",", "\"", "s", "t", "a", "t", "u", "s", "\"", ":",
      "\"", "f", "a", "i", "l", "\"", ",", "\"", "f", "e", "e", "d", "b",
      "a", "c", "k", "\"", ":", "[", "]", "}">>

(* {"status":"pAsS","feedback":[]} *)
ProbeMixedCase ==
    <<"{", "\"", "s", "t", "a", "t", "u", "s", "\"", ":", "\"", "p", "A",
      "s", "S", "\"", ",", "\"", "f", "e", "e", "d", "b", "a", "c", "k",
      "\"", ":", "[", "]", "}">>

ProbeBodies ==
    {ReplyContent, ReplyNull, ReplyEmptyObject, ReplyProse, ReplyPass,
     ReplyFail, ReplyFailNoFeedback, ReplyStatusNull, ReplyMaybe,
     ReplyPassSuggestion, ReplyFeedbackTrue, ProbeBraceInString, ProbeSpaced,
     ProbeEmpty, ProbeBrokenArray, ProbeUnclosed, ProbeArray, ProbePadded,
     ProbeNoFeedback, ProbeNoStatus, ProbeString, ProbeKeyList,
     ProbeLastWins, ProbeMixedCase}

(* the reply text of a probe *)
ProbeText(p) == p.pre \o p.body \o p.post

----------------------------------------------------------------------------
(* generate's result for each generation reply of the pipeline model, and *)
(* review's outcome for each evaluation reply, tabulated once             *)
Generated == [r \in GenerationReplies |-> GeneratorParse(r)]

Reviewed == [r \in EvaluationReplies |-> ReviewerParse(r)]

----------------------------------------------------------------------------
VARIABLES
    pc,               \* where the handler of the Generate button stands
    grade, topic,     \* the inputs of the running invocation
    initial_content, review_result, refined_content, refined_review,
    requests,         \* the requests the invocation has sent, in order
    replies,          \* the reply texts it has received, in order
    session,          \* st.session_state
    message,          \* what the handler last showed: st.success / st.error
    failure,          \* the exception the handler caught, "none" if none
    probe,            \* parsing alone: the reply [pre, body, post] parsed
    stage,            \* parsing alone: "input", "generate" or "review"
    parsed            \* parsing alone: what the agent returned or raised

pipeVars ==
    <<pc, grade, topic, initial_content, review_result, refined_content,
      refined_review, requests, replies, session, message, failure>>

probeVars == <<probe, stage, parsed>>

vars == <<pipeVars, probeVars>>

NoProbe == [pre |-> <<>>, body |-> <<>>, post |-> <<>>]

InitPipeline ==
    /\ pc = "Idle"
    /\ grade = 0
    /\ topic = <<>>
    /\ initial_content = None
    /\ review_result = None
    /\ refined_content = None
    /\ refined_review = None
    /\ requests = <<>>
    /\ replies = <<>>
    /\ session = NoSession
    /\ message = "none"
    /\ failure = "none"

Init ==
    /\ InitPipeline
    /\ probe = NoProbe
    /\ stage = "input"
    /\ parsed = Returned(None)

InFlight == {"Generating", "Reviewing", "Refining", "ReReviewing"}

(* the locals of generate_content before it starts and after it unwinds *)
ClearLocals ==
    /\ initial_content' = None
    /\ review_result' = None
    /\ refined_content' = None
    /\ refined_review' = None

(* An exception leaves generate_content and reaches the handler's except. *)
Caught(kind) ==
    /\ pc' = "Failed"
    /\ failure' = kind
    /\ message' = "error"
    /\ session' = OnException(session)
    /\ ClearLocals
    /\ UNCHANGED <<grade, topic, requests>>

(* generate_content returns; the handler stores the result and reports. *)
Returns(ic, ir, rc, rr) ==
    /\ pc' = "Done"
    /\ session' = StoreResult(ic, ir, rc, rr, grade, topic)
    /\ message' = "success"
    /\ UNCHANGED <<grade, topic, failure>>

(* The button is pressed with no topic: st.error, nothing else. *)
ClickNoTopic ==
    /\ pc \notin InFlight
    /\ \E g \in Grades :
        /\ grade' = g
        /\ topic' = <<>>
    /\ pc' = "Idle"
    /\ message' = "no_topic"
    /\ failure' = "none"
    /\ ClearLocals
    /\ requests' = <<>>
    /\ replies' = <<>>
    /\ UNCHANGED <<session, probeVars>>

(* The button is pressed: generate_content starts and sends the first *)
(* generation request.                                                *)
Click ==
    /\ pc \notin InFlight
    /\ \E g \in Grades, t \in Topics \ {<<>>} :
        /\ grade' = g
        /\ topic' = t
        /\ requests' = <<GenerateRequest(BuildPrompt(g, t, None).val)>>
    /\ pc' = "Generating"
    /\ message' = "none"
    /\ failure' = "none"
    /\ ClearLocals
    /\ replies' = <<>>
    /\ UNCHANGED <<session, probeVars>>

(* The first generation reply arrives; it is parsed and sent to review. *)
GenerateReturns ==
    /\ pc = "Generating"
    /\ \E r \in GenerationReplies :
        /\ replies' = Append(replies, r)
        /\ initial_content' = Generated[r]
        /\ requests' =
              Append(requests, ReviewRequest(Generated[r], grade, topic))
    /\ pc' = "Reviewing"
    /\ UNCHANGED <<grade, topic, review_result, refined_content,
                   refined_review, session, message, failure, probeVars>>

(* The first evaluation reply arrives: review raises, or the verdict     *)
(* decides between returning and sending the second generation request. *)
ReviewReturns ==
    /\ pc = "Reviewing"
    /\ \E r \in EvaluationReplies :
        LET reviewed == Reviewed[r]
            prompt == BuildPrompt(grade, topic,
                                  GetItem(reviewed.val, KeyFeedback))
        IN  /\ replies' = Append(replies, r)
            /\ IF reviewed.exc # "none" THEN Caught(reviewed.exc)
               ELSE IF ~NeedsRefinement(reviewed.val)
               THEN /\ Returns(initial_content, reviewed.val, None, None)
                    /\ review_result' = reviewed.val
                    /\ UNCHANGED <<initial_content, refined_content,
                                   refined_review, requests>>
               ELSE IF prompt.exc # "none" THEN Caught(prompt.exc)
               ELSE /\ pc' = "Refining"
                    /\ review_result' = reviewed.val
                    /\ requests' =
                          Append(requests, GenerateRequest(prompt.val))
                    /\ UNCHANGED <<grade, topic, initial_content,
                                   refined_content, refined_review, session,
                                   message, failure>>
    /\ UNCHANGED probeVars

(* The second generation reply arrives; it is parsed and sent to review. *)
RegenerateReturns ==
    /\ pc = "Refining"
    /\ \E r \in GenerationReplies :
        /\ replies' = Append(replies, r)
        /\ refined_content' = Generated[r]
        /\ requests' =
              Append(requests, ReviewRequest(Generated[r], grade, topic))
    /\ pc' = "ReReviewing"
    /\ UNCHANGED <<grade, topic, initial_content, review_result,
                   refined_review, session, message, failure, probeVars>>

(* The second evaluation reply arrives: review raises, or the call returns. *)
ReReviewReturns ==
    /\ pc = "ReReviewing"
    /\ \E r \in EvaluationReplies :
        LET reviewed == Reviewed[r] IN
        /\ replies' = Append(replies, r)
        /\ IF reviewed.exc # "none" THEN Caught(reviewed.exc)
           ELSE /\ Returns(initial_content, review_result, refined_content,
                           reviewed.val)
                /\ refined_review' = reviewed.val
                /\ UNCHANGED <<initial_content, review_result,
                               refined_content, requests>>
    /\ UNCHANGED probeVars

(* The request in flight fails in transport: the client raises. *)
TransportError ==
    /\ pc \in InFlight
    /\ Caught("transport")
    /\ UNCHANGED <<replies, probeVars>>

Next ==
    \/ ClickNoTopic
    \/ Click
    \/ GenerateReturns
    \/ ReviewReturns
    \/ RegenerateReturns
    \/ ReReviewReturns
    \/ TransportError

Spec == Init /\ [][Next]_vars

----------------------------------------------------------------------------
(* Parsing alone: one reply text, handed to generate or to review. *)

InitParse ==
    /\ InitPipeline
    /\ probe \in [pre : Prose, body : ProbeBodies, post : Prose]
    /\ stage = "input"
    /\ parsed = Returned(None)

(* generate parses the reply *)
ParseAsContent ==
    /\ stage = "input"
    /\ stage' = "generate"
    /\ parsed' = Returned(GeneratorParse(ProbeText(probe)))
    /\ UNCHANGED <<probe, pipeVars>>

(* review parses the reply *)
ParseAsReview ==
    /\ stage = "input"
    /\ stage' = "review"
    /\ parsed' = ReviewerParse(ProbeText(probe))
    /\ UNCHANGED <<probe, pipeVars>>

NextParse ==
    \/ ParseAsContent
    \/ ParseAsReview

SpecParse == InitParse /\ [][NextParse]_vars

----------------------------------------------------------------------------
(* What the claims speak of *)

(* the number of requests sent to one agent in the running invocation *)
Calls(agent) ==
    Cardinality({i \in 1..Len(requests) : requests[i].agent = agent})

StatusOf(verdict) == GetItem(verdict, KeyStatus)

FeedbackOf(verdict) == GetItem(verdict, KeyFeedback)

IsFail(verdict) == StatusOf(verdict) = Str(StatusFail)

NonEmptyList(x) == x.t = "list" /\ Len(x.items) > 0

(* a ContentRecord: a record with an explanation and questions *)
WellTypedContent(x) ==
    x.t = "dict" /\ HasKey(x, KeyExplanation) /\ HasKey(x, KeyMcqs)

(* a ReviewVerdict: a record with status pass or fail and a feedback list *)
WellTypedVerdict(x) ==
    /\ x.t = "dict"
    /\ HasKey(x, KeyStatus)
    /\ HasKey(x, KeyFeedback)
    /\ StatusOf(x) \in {Str(StatusPass), Str(StatusFail)}
    /\ FeedbackOf(x).t = "list"

(* C1: every completed call returns the refined content and the refined   *)
(* verdict both present exactly when the initial verdict is Fail with a   *)
(* non-empty feedback list, and both absent in every other case.          *)
C1_RefinedPairIffFailWithFeedback ==
    pc = "Done" =>
        IF IsFail(review_result) /\ NonEmptyList(FeedbackOf(review_result))
        THEN refined_content # None /\ refined_review # None
        ELSE refined_content = None /\ refined_review = None

(* C2: whatever the services reply, an invocation calls the generator at  *)
(* most twice and the reviewer at most twice and then reaches Done: no    *)
(* reply makes it end otherwise.                                          *)
C2_AtMostTwoCallsEachThenDone ==
    /\ Calls("generator") <= 2
    /\ Calls("reviewer") <= 2
    /\ (pc = "Failed" => failure = "transport")

(* C3: with no transport error, a malformed reply is never propagated as  *)
(* an error: generate_content completes, and what it returns is well      *)
(* typed, each content a record with explanation and mcqs and each        *)
(* verdict a record with status pass or fail and a feedback list.         *)
C3_MalformedReplyYieldsWellTypedResult ==
    /\ (failure # "transport" => pc # "Failed")
    /\ (pc = "Done" =>
            /\ WellTypedContent(initial_content)
            /\ WellTypedVerdict(review_result)
            /\ (Len(replies) = 4 =>
                    /\ WellTypedContent(refined_content)
                    /\ WellTypedVerdict(refined_review)))

----------------------------------------------------------------------------
(* the text between the first opening brace and the last closing brace, *)
(* or the whole text when there is no such span                         *)
BraceSpan(text) ==
    LET opens == {i \in 1..Len(text) : text[i] = "{"}
        closes == {i \in 1..Len(text) : text[i] = "}"}
        first == CHOOSE i \in opens : \A j \in opens : i <= j
        last == CHOOSE i \in closes : \A j \in closes : j <= i
    IN  IF opens # {} /\ closes # {} /\ first < last
        THEN SubSeq(text, first, last)
        ELSE text

(* every spelling of "pass" that case-folds to it *)
PassSpellings ==
    {<<a, b, c, d>> : a \in {"p", "P"}, b \in {"a", "A"},
                      c \in {"s", "S"}, d \in {"s", "S"}}

C5_FailureLeavesSessionUnchanged ==
    [][/\ (pc' = "Failed" =>
                /\ pc \in InFlight
                /\ session' = session
                /\ message' = "error")
       /\ (session' # session =>
                /\ pc' = "Done"
                /\ session' = [set |-> TRUE,
                               initial_content |-> initial_content',
                               initial_review |-> review_result',
                               refined_content |-> refined_content',
                               refined_review |-> refined_review',
                               grade |-> grade',
                               topic |-> topic'])]_vars

(* C5 witness: the regeneration call of a later invocation has failed in  *)
(* transport while the result of an earlier one, for another grade, is    *)
(* stored                                                                 *)
C5_Witness ==
    /\ pc = "Failed"
    /\ failure = "transport"
    /\ Len(requests) = 3
    /\ session.set
    /\ session.grade # grade
    /\ session.refined_content # None

(* C6: the final content shown and offered for download is the refined    *)
(* content whenever the stored result has one, whatever it is, and the    *)
(* initial content only when it has none; the final review is the verdict *)
(* paired with that content.                                              *)
C6_FinalIsRefinedWhenPresent ==
    session.set =>
        IF session.refined_content # None
        THEN /\ FinalContent(session) = session.refined_content
             /\ FinalReview(session) = session.refined_review
        ELSE /\ FinalContent(session) = session.initial_content
             /\ FinalReview(session) = session.initial_review

Degraded(text) ==
    Dict(<<[k |-> KeyExplanation, v |-> Str(text)],
           [k |-> KeyMcqs, v |-> List(<<>>)]>>)

(* C8: content parsing is fail-open: when the text between the first      *)
(* opening brace and the last closing brace, or the whole reply when      *)
(* there is no such span, does not decode, generate returns the record    *)
(* with the raw reply verbatim as explanation and no questions, and does  *)
(* not raise.                                                             *)
C8_UndecodableReplyIsDegraded ==
    stage = "generate" /\ ~JsonLoads(BraceSpan(ProbeText(probe))).ok =>
        parsed = Returned(Degraded(ProbeText(probe)))

(* C8 witness: a reply with prose around an undecodable brace span has *)
(* been parsed into its degraded record                                *)
C8_Witness ==
    /\ stage = "generate"
    /\ probe.body = ProbeBrokenArray
    /\ probe.pre = <<"x">>
    /\ probe.post = <<"x", "x">>
    /\ parsed = Returned(Degraded(ProbeText(probe)))

(* well-formed content payloads: their text, and the fields it spells *)
ContentPayloads ==
    <<[text |-> ReplyContent,
       explanation |-> Str(<<"a", "b">>),
       mcqs |->
           List(<<Dict(<<[k |-> <<"q", "u", "e", "s", "t", "i", "o", "n">>,
                          v |-> Str(<<"q">>)],
                         [k |-> <<"o", "p", "t", "i", "o", "n", "s">>,
                          v |-> List(<<Str(<<"a">>), Str(<<"b">>),
                                       Str(<<"c">>), Str(<<"d">>)>>)],
                         [k |-> <<"a", "n", "s", "w", "e", "r">>,
                          v |-> Str(<<"b">>)]>>)>>)],
      [text |-> ProbeBraceInString,
       explanation |-> Str(<<"{", "a", "}">>),
       mcqs |->
           List(<<Dict(<<[k |-> <<"q", "u", "e", "s", "t", "i", "o", "n">>,
                          v |-> Str(<<"q">>)],
                         [k |-> <<"a", "n", "s", "w", "e", "r">>,
                          v |-> Str(<<"b">>)]>>)>>)],
      [text |-> ProbeSpaced,
       explanation |-> Str(<<>>),
       mcqs |-> List(<<>>)]>>

(* the record returned has the explanation and the mcqs of payload p *)
ReproducesPayload(p) ==
    /\ parsed.exc = "none"
    /\ parsed.val.t = "dict"
    /\ HasKey(parsed.val, KeyExplanation)
    /\ HasKey(parsed.val, KeyMcqs)
    /\ GetItem(parsed.val, KeyExplanation) = p.explanation
    /\ GetItem(parsed.val, KeyMcqs) = p.mcqs

(* C9, as claimed: parsing the text of a well-formed payload, alone or    *)
(* with any prose before and after it, returns the payload's explanation  *)
(* and mcqs exactly.                                                      *)
C9_RoundTripInAnyProse ==
    \A i \in 1..Len(ContentPayloads) :
        stage = "generate" /\ probe.body = ContentPayloads[i].text =>
            ReproducesPayload(ContentPayloads[i])

(* C9, amended: parsing the text of a well-formed payload, alone or with  *)
(* prose around it that has no opening brace before the payload and no    *)
(* closing brace after it, returns the payload's explanation and mcqs     *)
(* exactly.                                                               *)
C9_RoundTripInBraceFreeProse ==
    \A i \in 1..Len(ContentPayloads) :
        /\ stage = "generate"
        /\ probe.body = ContentPayloads[i].text
        /\ \A j \in 1..Len(probe.pre) : probe.pre[j] # "{"
        /\ \A j \in 1..Len(probe.post) : probe.post[j] # "}"
        => ReproducesPayload(ContentPayloads[i])

(* C9 witness: a payload with prose on both sides, a closing brace before *)
(* it and an opening brace after it, has been reproduced                  *)
C9_Witness ==
    /\ stage = "generate"
    /\ probe.body = ReplyContent
    /\ probe.pre = <<"x", "}">>
    /\ probe.post = <<"{", "x">>
    /\ ReproducesPayload(ContentPayloads[1])

RECURSIVE SplitLines(_)
(* the lines of a text, split at its line breaks *)
SplitLines(text) ==
    LET breaks == {i \in 1..Len(text) : text[i] = "\n"} IN
    IF breaks = {} THEN <<text>>
    ELSE LET b == CHOOSE i \in breaks : \A j \in breaks : i <= j IN
         <<SubSeq(text, 1, b - 1)>>
         \o SplitLines(SubSeq(text, b + 1, Len(text)))

(* the verdict status each evaluation reply of the model spells *)
SpelledStatus(reply) ==
    IF reply \in {ReplyPass, ReplyPassSuggestion} THEN StatusPass
    ELSE StatusFail

(* C10: the calls of an invocation go generate, review, regenerate,       *)
(* re-review, each sent only after the reply to the one before; the first *)
(* review is of the initial content; the second generation request has    *)
(* the grade and topic of the first and one line per feedback item of the *)
(* initial verdict, every item verbatim and in order; the second review   *)
(* is of the refined content; and the refined verdict returned is what    *)
(* the second evaluation said, pass or fail.                              *)
C10_SequentialCallsCarryOutputs ==
    /\ Len(requests) <= 4
    /\ \A i \in 1..Len(requests) :
          requests[i].agent = IF i % 2 = 1 THEN "generator" ELSE "reviewer"
    /\ (pc \in InFlight => Len(requests) = Len(replies) + 1)
    /\ (pc = "Done" => Len(requests) = Len(replies))
    /\ (pc \in InFlight \cup {"Done"} =>
          /\ requests[1].prompt.grade = grade
          /\ requests[1].prompt.topic = topic
          /\ ~requests[1].prompt.revise
          /\ (Len(requests) >= 2 =>
                /\ requests[2].content = initial_content
                /\ requests[2].grade = grade
                /\ requests[2].topic = topic)
          /\ (Len(requests) >= 3 =>
                LET items == FeedbackOf(review_result).items
                    lines == SplitLines(requests[3].prompt.feedback_text)
                IN  /\ IsFail(review_result)
                    /\ requests[3].prompt.grade = grade
                    /\ requests[3].prompt.topic = topic
                    /\ requests[3].prompt.revise
                    /\ Len(items) > 0
                    /\ Len(lines) = Len(items)
                    /\ \A i \in 1..Len(items) :
                          /\ items[i].t = "str"
                          /\ lines[i] = <<"-", " ">> \o items[i].s)
          /\ (Len(requests) = 4 =>
                /\ requests[4].content = refined_content
                /\ requests[4].grade = grade
                /\ requests[4].topic = topic)
          /\ (Len(replies) = 4 =>
                /\ pc = "Done"
                /\ StatusOf(refined_review) = Str(SpelledStatus(replies[4]))
                /\ session.refined_review = refined_review))

(* C10 witness: a refinement on two feedback items is done, its refined *)
(* verdict a fail                                                       *)
C10_Witness ==
    /\ pc = "Done"
    /\ Len(requests) = 4
    /\ Len(FeedbackOf(review_result).items) = 2
    /\ IsFail(refined_review)

(* the verdict of each of review's two fallbacks *)
InvalidFormatVerdict == Verdict(StatusFail, List(<<Str(InvalidReviewFormat)>>))

CouldNotParseVerdict == Verdict(StatusFail, List(<<Str(CouldNotParse)>>))

(* the decoded payload has no status field or no feedback field *)
LacksField(payload) ==
    ~(/\ payload.t = "dict"
      /\ HasKey(payload, KeyStatus)
      /\ HasKey(payload, KeyFeedback))

(* C11: review parsing has two fallbacks, both Fail: a reply that decodes *)
(* but lacks the status field or the feedback field gives exactly the     *)
(* verdict fail / ["Invalid review format"]; a reply that does not decode *)
(* gives exactly fail / ["Could not parse review response"]; and each of  *)
(* them, as the initial verdict, meets the pipeline's refinement          *)
(* condition.                                                             *)
C11_TwoFallbacksBothRefine ==
    stage = "review" =>
        LET r == JsonLoads(BraceSpan(ProbeText(probe))) IN
        IF ~r.ok
        THEN /\ parsed = Returned(CouldNotParseVerdict)
             /\ NeedsRefinement(parsed.val)
        ELSE LacksField(r.val) =>
                 /\ parsed = Returned(InvalidFormatVerdict)
                 /\ NeedsRefinement(parsed.val)

(* C11, the part that holds: the same two fallbacks when the payload that *)
(* decodes is an object; a payload that is not an object (null, true, a   *)
(* string or a list naming both fields) makes review raise instead.       *)
C11_FallbacksOfObjectPayloads ==
    stage = "review" =>
        LET r == JsonLoads(BraceSpan(ProbeText(probe))) IN
        IF ~r.ok
        THEN /\ parsed = Returned(CouldNotParseVerdict)
             /\ NeedsRefinement(parsed.val)
        ELSE r.val.t = "dict" /\ LacksField(r.val) =>
                 /\ parsed = Returned(InvalidFormatVerdict)
                 /\ NeedsRefinement(parsed.val)

(* C11 in the pipeline: an initial verdict that is review's fallback for  *)
(* an undecodable reply is followed by the regeneration request, never by *)
(* the end of the invocation.                                             *)
C11_UndecodableReviewIsRefined ==
    /\ Len(replies) >= 2 /\ replies[2] = ReplyGarbled =>
           /\ pc # "Done" \/ Len(requests) = 4
           /\ Len(requests) >= 3
           /\ requests[3].agent = "generator"
           /\ (pc # "Failed" => review_result = CouldNotParseVerdict)
    /\ pc = "Refining" /\ replies[2] = ReplyGarbled =>
           requests[3].prompt.feedback_text =
               <<"-", " ">> \o CouldNotParse

(* C11 reached: review has answered a reply that decodes to an object     *)
(* without the status field with the "Invalid review format" verdict      *)
C11_Witness ==
    /\ stage = "review"
    /\ probe.body = ProbeNoStatus
    /\ probe.pre = <<"x">>
    /\ probe.post = <<>>
    /\ parsed = Returned(InvalidFormatVerdict)

(* C11 refuted: review has raised on a reply that decodes to null *)
C11_NullReplyRaises ==
    /\ stage = "review"
    /\ ProbeText(probe) = ReplyNull
    /\ parsed = Raised("TypeError")

====
